---- MODULE Spec2Model ----
(***************************************************************************)
(* Model of the Tritium CAN-Ethernet bridge protocol crates:               *)
(*   tritiumcan          - wire codec (Header, Frame, Packet), BusNumber   *)
(*   tritiumcan-smoltcp  - UDP and TCP transports over smoltcp sockets     *)
(*                                                                         *)
(* The smoltcp socket is an external collaborator.  Its operations are     *)
(* modelled by what smoltcp does (is_open, listen, close, can_send,        *)
(* send_slice, can_recv, recv_slice) at the places the transports call     *)
(* them; the peer and the network are environment actions.                 *)
(*                                                                         *)
(* Time is counted in whole seconds, so HEARTBEAT_INTERVAL is 1.           *)
(***************************************************************************)
EXTENDS Integers, Sequences, FiniteSets, TLC

VARIABLES
    run,             \* the part this behaviour drives: "tcp", "udp" or "codec"
    clock,           \* the caller's clock: the `now` handed to poll
    sock,            \* TCP socket: [state, tx_len, rx_len, rx_off]
    wire,            \* TCP: what the socket accepted on the connection, in order; empty once it has ended
    last_heartbeat,  \* tcp::Server.last_heartbeat
    tx_start,        \* tcp::Server.tx_start
    rx_start,        \* tcp::Server.rx_start
    ev,              \* TCP: what the transport call of this step did and returned
    usock,           \* UDP socket: [bound, tx, rx], tx the datagrams queued for sending,
                     \* rx the sizes of the datagrams received and not yet read
    udp_last_heartbeat,  \* udp::Server.last_heartbeat
    uev,             \* UDP: what the transport call of this step did and returned
    halted,          \* the process has panicked
    can,             \* codec: the CAN frame handed to Frame::from_frame
    enc,             \* codec: what from_frame returned
    back,            \* codec: what the wire Frame's accessors return
    made,            \* codec: what Frame::new or Frame::new_remote returned
    pc,              \* codec: "input", "encoded" or "read"
    mac_addr,        \* Server.mac_addr, the first argument of Packet::new_heartbeat
    bus_number,      \* Server.bus_number: the value of a BusNumber
    data_rate,       \* Server.data_rate
    packet,          \* heartbeat builder: what Packet::new_heartbeat returned
    bnum,            \* BusNumber: the u8 given, the constructor called, its result
    fld              \* bitfield: a buffer, the field set in it, the value, the buffer after

tcp_vars == <<sock, wire, last_heartbeat, tx_start, rx_start, ev>>

udp_vars == <<usock, udp_last_heartbeat, uev, halted>>

codec_vars == <<can, enc, back, made, pc>>

cfg_vars == <<mac_addr, bus_number, data_rate>>

lib_vars == <<bnum>>

bits_vars == <<fld>>

vars == <<run, clock, tcp_vars, udp_vars, codec_vars, cfg_vars, packet, lib_vars, bits_vars>>

-----------------------------------------------------------------------------
(* Bounds of the model *)

\* TCP: the clock runs from 0 to MaxNow seconds
MaxNow == 2
\* TCP: size in bytes of the tx_buffer handed to tcp::Server::new
TxCap == 44
\* TCP: number of writes recorded per connection
MaxWire == 2
\* TCP: number of bytes the peer sends on one connection
MaxPeer == 44
\* UDP: the clock runs from 0 to UdpMaxNow seconds
UdpMaxNow == 4
\* UDP: number of datagrams the tx_buffer handed to udp::Server::new holds
UdpTxCap == 1
\* UDP: number of datagrams the rx_buffer handed to udp::Server::new holds
UdpRxCap == 2

(* Program constants *)

HEARTBEAT_INTERVAL == 1
FRAME_LEN == 14
HEADER_LEN == 16
PREFIX_LEN == 30

Min(a, b) == IF a < b THEN a ELSE b

-----------------------------------------------------------------------------
(* tritiumcan: bit-packed buffers (bitfield crate, MSB0 over [u8]) *)

\* An integer of the bitfield's value type (u8, u32, u64) is held as its bytes
\* by significance: v[0] is the least significant byte.
U8(n) == [k \in 0..0 |-> n % 256]

U32(n) == [k \in 0..3 |-> (n \div (256 ^ k)) % 256]

U64Zero == [k \in 0..7 |-> 0]

\* u64::from_be_bytes: b[1] becomes the most significant byte
U64FromBeBytes(b) == [k \in 0..7 |-> b[8 - k]]

\* v | ((byte as u64) << (n * 8)), for a v whose byte n is still zero
U64OrShifted(v, byte, n) == [v EXCEPT ![n] = byte]

\* the numeric value of a u8, or of a u32 below 2^31
ToNat(v) ==
    LET RECURSIVE Sum(_)
        Sum(k) == IF k \notin DOMAIN v THEN 0 ELSE v[k] + 256 * Sum(k + 1)
    IN Sum(0)

\* bit k (0 = least significant) of a value; 0 beyond its width
ValBit(v, k) == IF (k \div 8) \in DOMAIN v THEN (v[k \div 8] \div (2 ^ (k % 8))) % 2 ELSE 0

\* bit i of a buffer in MSB0 order: bit 0 is the top bit of the first byte
BufBit(buf, i) == (buf[(i \div 8) + 1] \div (2 ^ (7 - (i % 8)))) % 2

Zeroed(len) == [j \in 1..len |-> 0]

\* BitRangeMut::set_bit_range(msb, lsb, value): the value's lowest bit lands on
\* bit index msb, the next on msb - 1, and so on down to lsb.  (The macro's
\* `name: a, b` passes a as msb and b as lsb.)
set_bit_range(buf, msb, lsb, v) ==
    LET NewBit(i) == IF lsb <= i /\ i <= msb THEN ValBit(v, msb - i) ELSE BufBit(buf, i)
        RECURSIVE Pack(_, _)
        Pack(j, p) == IF p > 7 THEN 0
                      ELSE NewBit(8 * (j - 1) + p) * (2 ^ (7 - p)) + Pack(j, p + 1)
        RECURSIVE Build(_)
        Build(j) == IF j > Len(buf) THEN <<>> ELSE <<Pack(j, 0)>> \o Build(j + 1)
    IN Build(1)

\* BitRange::bit_range(msb, lsb) into a value type of w bytes
bit_range(buf, msb, lsb, w) ==
    LET Bit(k) == IF k <= msb - lsb THEN BufBit(buf, msb - k) ELSE 0
        RECURSIVE Pack(_, _)
        Pack(b, q) == IF q > 7 THEN 0
                      ELSE Bit(8 * b + q) * (2 ^ q) + Pack(b, q + 1)
    IN [b \in 0..(w - 1) |-> Pack(b, 0)]

(* FrameBitfield: id 31,0; flags 39,32; dlc 47,40; data 111,48 *)

FrameNew == Zeroed(FRAME_LEN)

set_id(fr, v) == set_bit_range(fr, 31, 0, v)
set_flags(fr, v) == set_bit_range(fr, 39, 32, v)
set_dlc(fr, v) == set_bit_range(fr, 47, 40, v)
set_data(fr, v) == set_bit_range(fr, 111, 48, v)

frame_id(fr) == bit_range(fr, 31, 0, 4)
frame_flags(fr) == bit_range(fr, 39, 32, 1)
frame_dlc(fr) == bit_range(fr, 47, 40, 1)
frame_data(fr) == bit_range(fr, 111, 48, 8)

(* Flags *)

FlagHeartbeat == 128
FlagSettings == 64
FlagRemote == 2
FlagExtended == 1

\* Flags::from_frame(frame).bits()
FlagsFromFrame(f) ==
    (IF f.ext THEN FlagExtended ELSE 0) + (IF f.rtr THEN FlagRemote ELSE 0)

(* A CAN frame as embedded_can::Frame shows it:                           *)
(*   [id, ext, rtr, dlc, data], data a sequence of bytes                 *)

\* the loop of from_frame: the bytes of frame.data() from the last one back,
\* the n-th of them (n = 0, 1, ...) or-ed in at byte n, while n < dlc
RECURSIVE PackData(_, _, _)
PackData(f, n, acc) ==
    IF n >= Len(f.data) \/ n >= f.dlc THEN acc
    ELSE PackData(f, n + 1, U64OrShifted(acc, f.data[Len(f.data) - n], n))

\* Result<Frame, ()>
ErrFrame == [ok |-> FALSE, frame |-> <<>>]

OkFrame(fr) == [ok |-> TRUE, frame |-> fr]

\* a variant of the length test that lets through every dlc the 4-bit field of
\* a CAN controller can hold
TooLongAbove15(n) == n > 15

\* the length test of from_frame, new and new_remote: more than 8 bytes
TooLong(n) == n > 8

\* Frame::from_frame
from_frame(f) ==
    IF TooLong(f.dlc) THEN ErrFrame
    ELSE LET data == PackData(f, 0, U64Zero)
             dg1 == set_flags(FrameNew, U8(FlagsFromFrame(f)))
             dg2 == set_id(dg1, U32(f.id))
             dg3 == set_dlc(dg2, U8(f.dlc))
         IN OkFrame(set_data(dg3, data))

(* impl embedded_can::Frame for Frame: the constructors.  An identifier is  *)
(* [ext, raw], as embedded_can::Id carries it.                               *)

\* Option<Frame>
NoFrame == [ok |-> FALSE, frame |-> <<>>]

SomeFrame(fr) == [ok |-> TRUE, frame |-> fr]

\* can_data[..data.len()].copy_from_slice(data) into [0u8; 8]
PadTo8(d) == [i \in 1..8 |-> IF i <= Len(d) THEN d[i] ELSE 0]

\* the (flags, id) pair new and new_remote match out of the identifier
IdFlags(idv) == IF idv.ext THEN FlagExtended ELSE 0

\* Frame::new(id, data) of the embedded_can::Frame trait
new(idv, d) ==
    IF TooLong(Len(d)) THEN NoFrame
    ELSE LET dg1 == set_id(FrameNew, U32(idv.raw))
             dg2 == set_flags(dg1, U8(IdFlags(idv)))
             dg3 == set_dlc(dg2, U8(Len(d)))
         IN SomeFrame(set_data(dg3, U64FromBeBytes(PadTo8(d))))

\* Frame::new_remote(id, dlc)
new_remote(idv, n) ==
    IF TooLong(n) THEN NoFrame
    ELSE LET dg1 == set_id(FrameNew, U32(idv.raw))
             dg2 == set_flags(dg1, U8(IdFlags(idv) + FlagRemote))
             dg3 == set_dlc(dg2, U8(n))
         IN SomeFrame(set_data(dg3, U64Zero))

(* HeaderBitfield: version 59,8; bus_number 63,60; client_identifier 127,72 *)

HeaderNew == Zeroed(HEADER_LEN)

set_version(h, v) == set_bit_range(h, 59, 8, v)
set_bus_number(h, v) == set_bit_range(h, 63, 60, v)
set_client_identifier(h, v) == set_bit_range(h, 127, 72, v)

version(h) == bit_range(h, 59, 8, 8)
header_bus_number(h) == bit_range(h, 63, 60, 1)
client_identifier(h) == bit_range(h, 127, 72, 8)

\* PROTOCOL_VERSION = 0x5472697469756 as a u64, least significant byte first
PROTOCOL_VERSION == [k \in 0..7 |-> <<86, 151, 70, 151, 38, 71, 5, 0>>[k + 1]]

\* a variant that lays the data rate down least significant byte first
HeartbeatDataLe(mac, rate) == <<rate % 256, rate \div 256>> \o mac

\* new_heartbeat: data[0..2] = data_rate.to_be_bytes(), data[2..8] = mac_addr
HeartbeatData(mac, rate) == <<rate \div 256, rate % 256>> \o mac

\* a variant of the header that leaves the bus number out
PacketHeaderNoBus(bus) ==
    set_client_identifier(set_version(HeaderNew, PROTOCOL_VERSION), U64FromBeBytes(Zeroed(8)))

\* the header every packet gets: version, bus number, client identifier 0
PacketHeader(bus) ==
    LET h1 == set_version(HeaderNew, PROTOCOL_VERSION)
        h2 == set_bus_number(h1, U8(bus))
    IN set_client_identifier(h2, U64FromBeBytes(Zeroed(8)))

\* Packet::new_heartbeat(mac_addr, bus_number, data_rate)
new_heartbeat(mac, bus, rate) ==
    LET d == HeartbeatData(mac, rate)
        f1 == set_flags(FrameNew, U8(FlagHeartbeat))
        f2 == set_id(f1, U32(0))
        f3 == set_dlc(f2, U8(Len(d)))
    IN [header |-> PacketHeader(bus), frame |-> set_data(f3, U64FromBeBytes(d))]

\* a variant of the layout with the Frame aligned to 2 bytes after a pad
as_bytes_padded(pk) == pk.header \o <<0, 0>> \o pk.frame

\* Packet::as_bytes: the header's bytes, then the frame's (repr(C), no padding)
as_bytes(pk) == pk.header \o pk.frame

(* The configurations the model builds packets for *)

Macs == { <<1, 2, 3, 4, 5, 6>>, <<255, 254, 253, 252, 251, 250>>, <<0, 0, 0, 0, 0, 0>> }

\* the values a BusNumber can hold
BusNumbers == 0..15

Rates == {0, 256, 500, 65535}

\* Packet::new_heartbeat(..).as_bytes() over a set of configurations, tabulated
RECURSIVE HeartbeatTable(_)
HeartbeatTable(S) ==
    IF S = {} THEN <<>>
    ELSE LET c == CHOOSE x \in S : TRUE
         IN (c :> as_bytes(new_heartbeat(c[1], c[2], c[3]))) @@ HeartbeatTable(S \ {c})

\* the MAC address and the data rate the transports are constructed with
ServerMac == <<1, 2, 3, 4, 5, 6>>

ServerRate == 500

HeartbeatBytes == HeartbeatTable({ServerMac} \X BusNumbers \X {ServerRate})

\* the header of a packet by bus number, tabulated
RECURSIVE HeaderTable(_)
HeaderTable(S) ==
    IF S = {} THEN <<>>
    ELSE LET b == CHOOSE x \in S : TRUE
         IN (b :> PacketHeader(b)) @@ HeaderTable(S \ {b})

Headers == HeaderTable(BusNumbers)

(* impl embedded_can::Frame for Frame: the accessors.  A call either returns *)
(* a value or panics.                                                         *)

Returned(v) == [panic |-> FALSE, val |-> v]

Panicked(dummy) == [panic |-> TRUE, val |-> dummy]

\* Flags::from_bits(bits): None when a bit outside the four flags is set
KnownFlagBits == FlagHeartbeat + FlagSettings + FlagRemote + FlagExtended

HasBit(bits, flag) == (bits \div flag) % 2 = 1

FlagsUnknown(bits) ==
    \E k \in 0..7 : HasBit(bits, 2 ^ k) /\ ~HasBit(KnownFlagBits, 2 ^ k)

\* Flags::from_bits(self.flags()).unwrap().intersects(flag)
FlagTest(fr, flag) ==
    LET bits == ToNat(frame_flags(fr))
    IN IF FlagsUnknown(bits) THEN Panicked(FALSE) ELSE Returned(HasBit(bits, flag))

is_extended(fr) == FlagTest(fr, FlagExtended)

is_remote_frame(fr) == FlagTest(fr, FlagRemote)

\* ExtendedId::new(raw): None above 0x1FFF_FFFF, that is when the top byte is above 0x1F
ExtendedIdValid(v) == v[3] <= 31

\* StandardId::new(raw as u16): the low 16 bits, None above 0x7FF
StandardIdRaw(v) == v[1] * 256 + v[0]

StandardIdValid(v) == StandardIdRaw(v) <= 2047

NoId == [ext |-> FALSE, raw |-> 0]

\* Frame::id
id(fr) ==
    LET x == is_extended(fr)
        v == frame_id(fr)
    IN IF x.panic THEN Panicked(NoId)
       ELSE IF x.val
       THEN IF ExtendedIdValid(v) THEN Returned([ext |-> TRUE, raw |-> ToNat(v)])
                                  ELSE Panicked(NoId)
       ELSE IF StandardIdValid(v) THEN Returned([ext |-> FALSE, raw |-> StandardIdRaw(v)])
                                  ELSE Panicked(NoId)

\* Frame::dlc
dlc(fr) == Returned(ToNat(frame_dlc(fr)))

\* &buf[from..]: panics when from is beyond the end of the buffer
SliceFrom(buf, from) ==
    IF from > Len(buf) THEN Panicked(<<>>)
    ELSE Returned(SubSeq(buf, from + 1, Len(buf)))

\* the index data() slices the frame's bytes from
DataStart == 22

\* Frame::data
data(fr) == SliceFrom(fr, DataStart)

-----------------------------------------------------------------------------
(* BusNumber *)

\* a variant of the range test that lets 16 through
ValueTooHighAbove16(value) == value > 16

\* try_from, line 62: value > 0xF
ValueTooHigh(value) == value > 15

\* TryFrom<u8> for BusNumber: Err(()) or Ok(BusNumber(value))
try_from(value) ==
    IF ValueTooHigh(value) THEN [ok |-> FALSE, val |-> 0]
    ELSE [ok |-> TRUE, val |-> value]

\* Default for BusNumber: BusNumber(13)
default == [ok |-> TRUE, val |-> 13]

-----------------------------------------------------------------------------
(* smoltcp tcp::Socket, as the transport uses it *)

is_open(s) == s.state \notin {"Closed", "TimeWait"}

is_listening(s) == s.state = "Listen"

\* listen(PORT) on a socket that is not open: reset() empties both buffers
listen(s) == [state |-> "Listen", tx_len |-> 0, rx_len |-> 0, rx_off |-> 0]

close(s) ==
    [s EXCEPT !.state =
        CASE s.state = "Listen"      -> "Closed"
          [] s.state = "SynReceived" -> "FinWait1"
          [] s.state = "Established" -> "FinWait1"
          [] s.state = "CloseWait"   -> "LastAck"
          [] OTHER                   -> s.state]

may_send(s) == s.state \in {"Established", "CloseWait"}

can_send(s) == may_send(s) /\ s.tx_len < TxCap

may_recv(s) == s.state \in {"Established", "FinWait1", "FinWait2"} \/ s.rx_len > 0

can_recv(s) == may_recv(s) /\ s.rx_len > 0

\* send_slice(data) with len = data.len(): Err(InvalidState) unless may_send,
\* otherwise Ok(n) with n = the bytes that fitted, possibly fewer than len
send_slice(s, len) ==
    IF ~may_send(s)
    THEN [ok |-> FALSE, n |-> 0, sock |-> s]
    ELSE LET n == Min(len, TxCap - s.tx_len)
         IN [ok |-> TRUE, n |-> n, sock |-> [s EXCEPT !.tx_len = @ + n]]

\* recv_slice(buf) with len = buf.len(): Err unless may_recv, otherwise Ok(n)
\* with n = the bytes dequeued, possibly fewer than len; off is where in the
\* peer's stream the dequeued bytes start
recv_slice(s, len) ==
    IF ~may_recv(s)
    THEN [ok |-> FALSE, n |-> 0, off |-> s.rx_off, sock |-> s]
    ELSE LET n == Min(len, s.rx_len)
         IN [ok |-> TRUE, n |-> n, off |-> s.rx_off,
             sock |-> [s EXCEPT !.rx_len = @ - n, !.rx_off = @ + n]]

-----------------------------------------------------------------------------
(* tcp::Server *)

NoEv == [op |-> "new", listen |-> "none", closed |-> FALSE, hb |-> "none",
         res |-> "none", wrote |-> <<>>, skipped |-> 0, off |-> 0, dlc |-> 0,
         read |-> 0]

\* one write the socket accepted: what was written and how many bytes of it
Seg(kind, n) == [kind |-> kind, n |-> n]

\* the writes of one call that put bytes on the wire
Accepted(segs) == SelectSeq(segs, LAMBDA g : g.n > 0)

\* a variant of the comparison that fires as soon as one interval has passed
HeartbeatDueAtInterval(now, last) == now - last >= HEARTBEAT_INTERVAL

\* a variant of the comparison with the operands of the subtraction exchanged
HeartbeatDueReversed(now, last) == last - now > HEARTBEAT_INTERVAL

\* poll: now - self.last_heartbeat > HEARTBEAT_INTERVAL (tcp.rs line 76, udp.rs line 93)
HeartbeatDue(now, last) == now - last > HEARTBEAT_INTERVAL

InitTcp ==
    /\ clock = 0
    /\ sock = [state |-> "Closed", tx_len |-> 0, rx_len |-> 0, rx_off |-> 0]
    /\ wire = <<>>
    /\ last_heartbeat = 0
    /\ tx_start = FALSE
    /\ rx_start = FALSE
    /\ ev = NoEv

\* the CAN frames handed to send_frame: a classic frame, and one longer than 8
\* bytes (any embedded_can::Frame implementor may report such a dlc)
SentFrames ==
    { [id |-> 291, ext |-> FALSE, rtr |-> FALSE, dlc |-> 2, data |-> <<17, 34>>],
      [id |-> 291, ext |-> FALSE, rtr |-> FALSE, dlc |-> 9,
       data |-> <<1, 2, 3, 4, 5, 6, 7, 8, 9>>] }

\* Frame::from_frame over SentFrames, tabulated
RECURSIVE EncodedTable(_)
EncodedTable(S) ==
    IF S = {} THEN <<>>
    ELSE LET f == CHOOSE x \in S : TRUE
         IN (f :> from_frame(f)) @@ EncodedTable(S \ {f})

Encoded == EncodedTable(SentFrames)

\* a variant of the test that leaves out is_open
NeedsListenUnlessListening(s) == ~is_listening(s)

\* poll, lines 58-65: listen(PORT) when the socket is neither open nor listening
NeedsListen(s) == ~is_open(s) /\ ~is_listening(s)

\* a variant of the close that keeps the flags, as the revision without
\* tx_start and rx_start (src/src/tcp.rs) closes
StartKept(old) == old

\* poll, lines 70-71: the value tx_start and rx_start get when poll closes
StartAfterClose(old) == FALSE

\* a variant of poll without the can_send test
HeartbeatGateOpen(s) == TRUE

\* poll, line 75: the heartbeat is considered only if the socket can send
HeartbeatGate(s) == can_send(s)

\* a variant that stamps the attempt whatever it returned
HeartbeatStampAlways(ok, now, last) == now

\* poll, lines 77-83: last_heartbeat after a heartbeat write that returned Ok or Err
HeartbeatStamp(ok, now, last) == IF ok THEN now ELSE last

\* a variant of the senders that restarts the interval at every send
SendStampNow(now, last) == now

\* send_heartbeat and send_frame (tcp.rs 91-128, udp.rs 107-145) never assign
\* last_heartbeat, and write_heartbeat takes &self: the stamp after the call
SendStamp(now, last) == last

\* a step of the TCP transport leaves the rest alone
TcpOnly == run = "tcp" /\ UNCHANGED <<run, udp_vars, codec_vars, cfg_vars, packet, lib_vars, bits_vars>>

\* poll(now).  The socket engine decides whether a listen succeeds (listen_ok).
TcpPoll(listen_ok) ==
    LET now == clock
        tried == NeedsListen(sock)
        s1 == IF tried /\ listen_ok THEN listen(sock) ELSE sock
        lres == IF ~tried THEN "none" ELSE IF listen_ok THEN "ok" ELSE "err"
        e0 == [NoEv EXCEPT !.op = "poll", !.listen = lres]
    IN
    /\ TcpOnly
    /\ tried \/ listen_ok
    /\ IF s1.state = "CloseWait"
       THEN /\ sock' = close(s1)
            /\ tx_start' = StartAfterClose(tx_start)
            /\ rx_start' = StartAfterClose(rx_start)
            /\ ev' = [e0 EXCEPT !.closed = TRUE]
            /\ UNCHANGED <<wire, last_heartbeat>>
       ELSE IF HeartbeatGate(s1) /\ HeartbeatDue(now, last_heartbeat)
       THEN LET r == send_slice(s1, FRAME_LEN)
                w == Accepted(<<Seg("hb", r.n)>>)
            IN /\ Len(wire) + Len(w) <= MaxWire
               /\ sock' = r.sock
               /\ wire' = wire \o w
               /\ last_heartbeat' = HeartbeatStamp(r.ok, now, last_heartbeat)
               /\ ev' = [e0 EXCEPT !.hb = IF r.ok THEN "ok" ELSE "err", !.wrote = w]
               /\ UNCHANGED <<tx_start, rx_start>>
       ELSE /\ sock' = s1
            /\ ev' = e0
            /\ UNCHANGED <<wire, last_heartbeat, tx_start, rx_start>>
    /\ UNCHANGED clock

\* send_heartbeat
TcpSendHeartbeat ==
    LET r == send_slice(sock, FRAME_LEN)
        w == Accepted(<<Seg("hb", r.n)>>)
    IN /\ TcpOnly
       /\ Len(wire) + Len(w) <= MaxWire
       /\ sock' = r.sock
       /\ wire' = wire \o w
       /\ ev' = [NoEv EXCEPT !.op = "send_heartbeat",
                             !.res = IF r.ok THEN "ok" ELSE "err", !.wrote = w]
       /\ last_heartbeat' = SendStamp(clock, last_heartbeat)
       /\ UNCHANGED <<clock, tx_start, rx_start>>

\* send_frame(frame)
TcpSendFrame(f) ==
    LET p == IF ~tx_start THEN send_slice(sock, PREFIX_LEN)
                          ELSE [ok |-> TRUE, n |-> 0, sock |-> sock]
        fr == Encoded[f]
        q == IF fr.ok THEN send_slice(p.sock, FRAME_LEN)
                      ELSE [ok |-> TRUE, n |-> 0, sock |-> p.sock]
        w == Accepted(<<Seg("prefix", p.n), Seg("frame", q.n)>>)
        e0 == [NoEv EXCEPT !.op = "send_frame", !.dlc = f.dlc]
    IN
    /\ TcpOnly
    /\ IF ~p.ok
       THEN \* socket.send_slice(&[0; 30])? returns the error
            /\ ev' = [e0 EXCEPT !.res = "err"]
            /\ UNCHANGED <<sock, wire, tx_start>>
       ELSE /\ Len(wire) + Len(w) <= MaxWire
            /\ sock' = q.sock
            /\ wire' = wire \o w
            /\ tx_start' = TRUE
            /\ ev' = [e0 EXCEPT !.res = IF q.ok THEN "ok" ELSE "err", !.wrote = w]
    /\ last_heartbeat' = SendStamp(clock, last_heartbeat)
    /\ UNCHANGED <<clock, rx_start>>

\* recv_frame
TcpRecvFrame ==
    LET p == IF ~rx_start THEN recv_slice(sock, PREFIX_LEN)
                          ELSE [ok |-> TRUE, n |-> 0, off |-> sock.rx_off, sock |-> sock]
        r == recv_slice(p.sock, FRAME_LEN)
        e0 == [NoEv EXCEPT !.op = "recv_frame"]
    IN
    /\ TcpOnly
    /\ IF ~can_recv(sock)
       THEN /\ ev' = e0
            /\ UNCHANGED <<sock, rx_start>>
       ELSE /\ sock' = r.sock
            /\ rx_start' = TRUE
            /\ ev' = [e0 EXCEPT !.skipped = p.n,
                                !.res = IF ~r.ok THEN "err"
                                        ELSE IF r.n # FRAME_LEN THEN "none" ELSE "frame",
                                !.off = r.off,
                                !.read = r.n]
    /\ UNCHANGED <<clock, wire, last_heartbeat, tx_start>>

(* The peer, the network and the clock *)

\* a SYN reaches the listening socket
PeerSyn ==
    /\ sock.state = "Listen"
    /\ sock' = [sock EXCEPT !.state = "SynReceived"]
    /\ ev' = NoEv
    /\ TcpOnly
    /\ UNCHANGED <<clock, wire, last_heartbeat, tx_start, rx_start>>

\* the handshake completes
PeerAck ==
    /\ sock.state = "SynReceived"
    /\ sock' = [sock EXCEPT !.state = "Established"]
    /\ ev' = NoEv
    /\ TcpOnly
    /\ UNCHANGED <<clock, wire, last_heartbeat, tx_start, rx_start>>

\* n more bytes of the peer's stream arrive
PeerData(n) ==
    /\ sock.state = "Established"
    /\ sock.rx_off + sock.rx_len + n <= MaxPeer
    /\ sock' = [sock EXCEPT !.rx_len = @ + n]
    /\ ev' = NoEv
    /\ TcpOnly
    /\ UNCHANGED <<clock, wire, last_heartbeat, tx_start, rx_start>>

\* the peer half-closes
PeerFin ==
    /\ sock.state = "Established"
    /\ sock' = [sock EXCEPT !.state = "CloseWait"]
    /\ ev' = NoEv
    /\ TcpOnly
    /\ UNCHANGED <<clock, wire, last_heartbeat, tx_start, rx_start>>

\* the peer acknowledges our FIN
PeerFinAck ==
    /\ sock.state = "LastAck"
    /\ sock' = [sock EXCEPT !.state = "Closed"]
    /\ wire' = <<>>
    /\ ev' = NoEv
    /\ TcpOnly
    /\ UNCHANGED <<clock, last_heartbeat, tx_start, rx_start>>

\* a RST arrives, or the socket engine times the connection out
PeerRst ==
    /\ sock.state \in {"SynReceived", "Established", "CloseWait", "LastAck"}
    /\ sock' = [sock EXCEPT !.state = IF sock.state = "SynReceived" THEN "Listen" ELSE "Closed"]
    /\ wire' = <<>>
    /\ ev' = NoEv
    /\ TcpOnly
    /\ UNCHANGED <<clock, last_heartbeat, tx_start, rx_start>>

\* the network takes the queued bytes
NetDrain ==
    /\ sock.state \in {"Established", "CloseWait", "LastAck"}
    /\ sock.tx_len > 0
    /\ sock' = [sock EXCEPT !.tx_len = 0]
    /\ ev' = NoEv
    /\ TcpOnly
    /\ UNCHANGED <<clock, wire, last_heartbeat, tx_start, rx_start>>

Tick ==
    /\ clock < MaxNow
    /\ clock' = clock + 1
    /\ ev' = NoEv
    /\ TcpOnly
    /\ UNCHANGED <<sock, wire, last_heartbeat, tx_start, rx_start>>

PeerChunks == {14, 30}

-----------------------------------------------------------------------------
(* smoltcp udp::Socket, as the transport uses it *)

udp_is_open(s) == s.bound

bind(s) == [s EXCEPT !.bound = TRUE]

\* send_slice(data, meta): Err(Unaddressable) on an unbound socket,
\* Err(BufferFull) when the packet buffer has no room, otherwise the whole
\* datagram is queued
udp_send_slice(s, dgram) ==
    IF ~s.bound \/ Len(s.tx) >= UdpTxCap
    THEN [ok |-> FALSE, sock |-> s]
    ELSE [ok |-> TRUE, sock |-> [s EXCEPT !.tx = Append(@, dgram)]]

\* recv_slice(buf) with len = buf.len(): Err(Exhausted) on an empty queue.
\* Otherwise the oldest datagram is taken.  One that fits is copied whole.  One
\* longer than buf is, depending on the smoltcp release, either cut to len
\* bytes with Ok(len) (truncates) or dropped with Err(Truncated).
udp_recv_slice(s, len, truncates) ==
    IF s.rx = <<>>
    THEN [ok |-> FALSE, n |-> 0, dgram |-> 0, sock |-> s]
    ELSE LET d == Head(s.rx)
             rest == [s EXCEPT !.rx = Tail(@)]
         IN IF d <= len THEN [ok |-> TRUE, n |-> d, dgram |-> d, sock |-> rest]
            ELSE IF truncates THEN [ok |-> TRUE, n |-> len, dgram |-> d, sock |-> rest]
            ELSE [ok |-> FALSE, n |-> 0, dgram |-> d, sock |-> rest]

-----------------------------------------------------------------------------
(* udp::Server *)

\* size_of::<Packet>(): a Header followed by a Frame
PacketLen == HEADER_LEN + FRAME_LEN

Dgram(kind) == [kind |-> kind, len |-> PacketLen]

NoUev == [op |-> "new", bind |-> "none", hb |-> "none", res |-> "none", sent |-> <<>>,
          dlc |-> 0, dgram |-> 0, read |-> 0, bytes |-> <<>>, arg |-> 0]

\* write_heartbeat: the bytes handed to send_slice
UdpHeartbeatBytes == HeartbeatBytes[<<mac_addr, bus_number, data_rate>>]

InitUdp ==
    /\ usock = [bound |-> FALSE, tx |-> <<>>, rx |-> <<>>]
    /\ udp_last_heartbeat = 0
    /\ uev = NoUev
    /\ halted = FALSE

\* a step of the UDP transport leaves the rest alone
UdpOnly == run = "udp" /\ UNCHANGED <<run, tcp_vars, codec_vars, cfg_vars, packet, lib_vars, bits_vars>>

\* poll(now).  The socket engine decides whether a bind succeeds (bind_ok).
UdpPoll(bind_ok) ==
    LET now == clock
        tried == ~udp_is_open(usock)
        s1 == IF tried /\ bind_ok THEN bind(usock) ELSE usock
        bres == IF ~tried THEN "none" ELSE IF bind_ok THEN "ok" ELSE "err"
        e0 == [NoUev EXCEPT !.op = "poll", !.bind = bres]
        r == udp_send_slice(s1, Dgram("hb"))
    IN
    /\ ~halted
    /\ UdpOnly
    /\ tried \/ bind_ok
    /\ IF HeartbeatDue(now, udp_last_heartbeat)
       THEN /\ usock' = r.sock
            /\ udp_last_heartbeat' = HeartbeatStamp(r.ok, now, udp_last_heartbeat)
            /\ uev' = [e0 EXCEPT !.hb = IF r.ok THEN "ok" ELSE "err",
                                 !.sent = IF r.ok THEN <<Dgram("hb")>> ELSE <<>>,
                                 !.bytes = IF r.ok THEN UdpHeartbeatBytes ELSE <<>>]
       ELSE /\ usock' = s1
            /\ uev' = e0
            /\ UNCHANGED udp_last_heartbeat
    /\ UNCHANGED <<clock, halted>>

\* send_heartbeat
UdpSendHeartbeat ==
    LET r == udp_send_slice(usock, Dgram("hb"))
    IN /\ ~halted
       /\ UdpOnly
       /\ usock' = r.sock
       /\ uev' = [NoUev EXCEPT !.op = "send_heartbeat",
                               !.res = IF r.ok THEN "ok" ELSE "err",
                               !.sent = IF r.ok THEN <<Dgram("hb")>> ELSE <<>>,
                               !.bytes = IF r.ok THEN UdpHeartbeatBytes ELSE <<>>]
       /\ udp_last_heartbeat' = SendStamp(clock, udp_last_heartbeat)
       /\ UNCHANGED <<clock, halted>>

\* send_frame(frame): Frame::from_frame(frame).unwrap() panics on Err
UdpSendFrame(f) ==
    LET fr == Encoded[f]
        r == udp_send_slice(usock, Dgram("frame"))
        e0 == [NoUev EXCEPT !.op = "send_frame", !.dlc = f.dlc]
    IN
    /\ ~halted
    /\ UdpOnly
    /\ IF ~fr.ok
       THEN /\ halted' = TRUE
            /\ uev' = [e0 EXCEPT !.res = "panic"]
            /\ UNCHANGED usock
       ELSE /\ usock' = r.sock
            /\ uev' = [e0 EXCEPT !.res = IF r.ok THEN "ok" ELSE "err",
                                 !.sent = IF r.ok THEN <<Dgram("frame")>> ELSE <<>>,
                                 !.bytes = IF r.ok THEN Headers[bus_number] \o fr.frame
                                                   ELSE <<>>]
            /\ UNCHANGED halted
    /\ udp_last_heartbeat' = SendStamp(clock, udp_last_heartbeat)
    /\ UNCHANGED clock

\* the bus numbers handed to set_bus_number
SetBusNumbers == {0, 15}

\* a variant of the setter that keeps the old value
StoredBusNumberKept(old, b) == old

\* set_bus_number, line 74: self.bus_number = bus_number
StoredBusNumber(old, b) == b

\* bus_number(): self.bus_number
ServerBusNumber == bus_number

\* set_bus_number(b)
UdpSetBusNumber(b) ==
    /\ ~halted
    /\ run = "udp"
    /\ bus_number' = StoredBusNumber(bus_number, b)
    /\ uev' = [NoUev EXCEPT !.op = "set_bus_number", !.arg = b]
    /\ UNCHANGED <<run, clock, tcp_vars, codec_vars, mac_addr, data_rate, packet, lib_vars, bits_vars,
                   usock, udp_last_heartbeat, halted>>

\* recv_frame.  The socket engine decides what becomes of a datagram longer
\* than the buffer (truncates).
UdpRecvFrame(truncates) ==
    LET r == udp_recv_slice(usock, PacketLen, truncates)
        e0 == [NoUev EXCEPT !.op = "recv_frame", !.dgram = r.dgram, !.read = r.n]
    IN
    /\ ~halted
    /\ UdpOnly
    /\ truncates \/ (usock.rx # <<>> /\ Head(usock.rx) > PacketLen)
    /\ usock' = r.sock
    /\ uev' = [e0 EXCEPT !.res = IF ~r.ok THEN "err"
                                 ELSE IF r.n # PacketLen THEN "none" ELSE "frame"]
    /\ UNCHANGED <<clock, udp_last_heartbeat, halted>>

\* the sizes of the datagrams that reach the socket: a bare Frame, a Packet,
\* and one byte more than a Packet
UdpArrivals == {FRAME_LEN, PacketLen, PacketLen + 1}

\* a datagram of n bytes reaches the bound socket
UdpPeerSend(n) ==
    /\ UdpOnly
    /\ usock.bound
    /\ Len(usock.rx) < UdpRxCap
    /\ usock' = [usock EXCEPT !.rx = Append(@, n)]
    /\ uev' = NoUev
    /\ UNCHANGED <<clock, udp_last_heartbeat, halted>>

\* the network takes the oldest queued datagram
UdpNetTake ==
    /\ usock.tx # <<>>
    /\ usock' = [usock EXCEPT !.tx = Tail(@)]
    /\ uev' = NoUev
    /\ UdpOnly
    /\ UNCHANGED <<clock, udp_last_heartbeat, halted>>

UdpTick ==
    /\ clock < UdpMaxNow
    /\ clock' = clock + 1
    /\ uev' = NoUev
    /\ UdpOnly
    /\ UNCHANGED <<usock, udp_last_heartbeat, halted>>

-----------------------------------------------------------------------------
(* The codec, driven on its own: a CAN frame is encoded, then read back *)

StandardIds == {0, 291, 2047}

ExtendedIds == {0, 2048, 536870911}

\* payloads of every length a frame may report, the bytes all different
Payload(n) == [i \in 1..n |-> 16 * i + 1]

\* the longest payload the model hands to the codec
MaxPayload == 9

DataFrames ==
    { [id |-> i, ext |-> FALSE, rtr |-> FALSE, dlc |-> n, data |-> Payload(n)]
        : i \in StandardIds, n \in 0..MaxPayload }
    \cup
    { [id |-> i, ext |-> TRUE, rtr |-> FALSE, dlc |-> n, data |-> Payload(n)]
        : i \in ExtendedIds, n \in 0..MaxPayload }

\* a remote frame reports a dlc and carries no data
RemoteFrames ==
    { [id |-> i, ext |-> FALSE, rtr |-> TRUE, dlc |-> n, data |-> <<>>]
        : i \in StandardIds, n \in 0..MaxPayload }
    \cup
    { [id |-> i, ext |-> TRUE, rtr |-> TRUE, dlc |-> n, data |-> <<>>]
        : i \in ExtendedIds, n \in 0..MaxPayload }

CanFrames == DataFrames \cup RemoteFrames

NoBack == [id |-> Returned(NoId), ext |-> Returned(FALSE), rtr |-> Returned(FALSE),
           dlc |-> Returned(0), data |-> Returned(<<>>)]

\* the frame the TCP and UDP specifications leave in the codec's variables
IdleFrame == [id |-> 0, ext |-> FALSE, rtr |-> FALSE, dlc |-> 0, data |-> <<>>]

\* neither constructor called yet
NotMade == [call |-> "none", res |-> NoFrame]

InitCodecIdle ==
    /\ can = IdleFrame
    /\ enc = ErrFrame
    /\ back = NoBack
    /\ made = NotMade
    /\ pc = "input"

InitCodec ==
    /\ can \in CanFrames
    /\ enc = ErrFrame
    /\ back = NoBack
    /\ made = NotMade
    /\ pc = "input"

(* Wire Frames as recv_frame hands them over: any 14 bytes the network     *)
(* delivered.  Bytes 0..3 are the identifier, byte 4 the flags, byte 5 the  *)
(* dlc, bytes 6..13 the data field.                                          *)

\* identifiers 0, 0x7FF, 0x800, 0x10000, 0x1FFFFFFF, 0x20000000, 0xFFFFFFFF
WireIds ==
    { <<0, 0, 0, 0>>, <<0, 0, 7, 255>>, <<0, 0, 8, 0>>, <<0, 1, 0, 0>>,
      <<31, 255, 255, 255>>, <<32, 0, 0, 0>>, <<255, 255, 255, 255>> }

WireFlags == 0..255

\* the dlc byte of a received Frame: recv_frame hands over what arrived, a dlc
\* above 8 included
WireDlcs == {0, 3, 8, 9}

WireData == <<17, 33, 49, 65, 81, 97, 113, 129>>

\* every flags byte with two identifiers, and every identifier and dlc with
\* the four combinations of Extended and Remote
WireFrames ==
    { i \o <<fl, 8>> \o WireData : i \in {<<0, 0, 1, 35>>, <<1, 2, 3, 4>>}, fl \in WireFlags }
    \cup
    { i \o <<fl, n>> \o WireData : i \in WireIds, fl \in 0..3, n \in WireDlcs }

\* a received Frame waits to be read through its accessors
InitWire ==
    /\ can = IdleFrame
    /\ enc \in { OkFrame(w) : w \in WireFrames }
    /\ back = NoBack
    /\ made = NotMade
    /\ pc = "encoded"

CodecOnly == run \in {"codec", "wire"} /\ UNCHANGED <<run, clock, tcp_vars, udp_vars, cfg_vars, packet, lib_vars, bits_vars>>

\* Frame::from_frame(&can)
Encode ==
    /\ CodecOnly
    /\ pc = "input"
    /\ enc' = from_frame(can)
    /\ pc' = "encoded"
    /\ UNCHANGED <<can, back, made>>

\* the wire Frame read through its embedded_can::Frame accessors
ReadBack ==
    /\ CodecOnly
    /\ pc = "encoded"
    /\ enc.ok
    /\ back' = [id |-> id(enc.frame), ext |-> is_extended(enc.frame),
                rtr |-> is_remote_frame(enc.frame), dlc |-> dlc(enc.frame),
                data |-> data(enc.frame)]
    /\ pc' = "read"
    /\ UNCHANGED <<can, enc, made>>

\* the same CAN frame built with the trait's constructors: Frame::new for a
\* data frame, Frame::new_remote for a remote frame
Construct ==
    /\ CodecOnly
    /\ run = "codec"
    /\ made.call = "none"
    /\ made' = IF can.rtr
                THEN [call |-> "new_remote",
                      res |-> new_remote([ext |-> can.ext, raw |-> can.id], can.dlc)]
                ELSE [call |-> "new",
                      res |-> new([ext |-> can.ext, raw |-> can.id], can.data)]
    /\ UNCHANGED <<can, enc, back, pc>>

-----------------------------------------------------------------------------
(* BusNumber, driven on its own: one constructor call on one u8 *)

NoCall == [ok |-> FALSE, val |-> 0]

InitBusIdle == bnum = [n |-> 0, call |-> "none", res |-> NoCall]

\* every u8
InitBus == bnum \in { [n |-> n, call |-> "none", res |-> NoCall] : n \in 0..255 }

LibOnly ==
    /\ run = "busnumber"
    /\ UNCHANGED <<run, clock, tcp_vars, udp_vars, codec_vars, cfg_vars, packet, bits_vars>>

\* BusNumber::try_from(n)
TryFrom ==
    /\ LibOnly
    /\ bnum.call = "none"
    /\ bnum' = [bnum EXCEPT !.call = "try_from", !.res = try_from(bnum.n)]

\* BusNumber::default()
Default ==
    /\ LibOnly
    /\ bnum.call = "none"
    /\ bnum' = [bnum EXCEPT !.call = "default", !.res = default]

-----------------------------------------------------------------------------
(* The bitfield structs, driven on their own: one setter call on one buffer *)

FILTER_LEN == 24

\* bitfield! declarations: getter name, msb, lsb, and the bytes of the value type
Field(name, msb, lsb, w) == [name |-> name, msb |-> msb, lsb |-> lsb, w |-> w]

HeaderFields ==
    << Field("version", 59, 8, 8),
       Field("bus_number", 63, 60, 1),
       Field("client_identifier", 127, 72, 8) >>

FrameFields ==
    << Field("id", 31, 0, 4),
       Field("flags", 39, 32, 1),
       Field("dlc", 47, 40, 1),
       Field("data", 111, 48, 8) >>

\* a variant of the Filter in which version_number runs on into
\* client_identifier
FilterFieldsOverlap ==
    << Field("fwd_identifier", 31, 0, 4),
       Field("fwd_range", 63, 32, 4),
       Field("bus_number", 71, 64, 1),
       Field("version_number", 135, 72, 8),
       Field("client_identifier", 187, 132, 8) >>

FilterFields ==
    << Field("fwd_identifier", 31, 0, 4),
       Field("fwd_range", 63, 32, 4),
       Field("bus_number", 71, 64, 1),
       Field("version_number", 123, 72, 8),
       Field("client_identifier", 187, 132, 8) >>

Structs == {"Header", "Frame", "Filter"}

StructLen(kind) ==
    CASE kind = "Header" -> HEADER_LEN
      [] kind = "Frame"  -> FRAME_LEN
      [] kind = "Filter" -> FILTER_LEN

Fields(kind) ==
    CASE kind = "Header" -> HeaderFields
      [] kind = "Frame"  -> FrameFields
      [] kind = "Filter" -> FilterFields

\* the buffers a setter is applied to: zeroed, all ones, and one with every
\* byte different
Buffers(len) ==
    { Zeroed(len), [j \in 1..len |-> 255], [j \in 1..len |-> (29 * j + 3) % 256] }

\* the values handed to a setter whose value type is w bytes wide: zero, all
\* ones (wider than any field narrower than its type), and a mixed one
Values(w) ==
    { [k \in 0..(w - 1) |-> 0], [k \in 0..(w - 1) |-> 255],
      [k \in 0..(w - 1) |-> (37 * (k + 1)) % 256] }

InitBitsIdle ==
    fld = [kind |-> "Header", f |-> 1, v |-> U8(0), before |-> HeaderNew,
           after |-> HeaderNew, done |-> FALSE]

InitBits ==
    \E kind \in Structs :
      \E f \in 1..Len(Fields(kind)) :
        \E v \in Values(Fields(kind)[f].w) :
          \E b \in Buffers(StructLen(kind)) :
            fld = [kind |-> kind, f |-> f, v |-> v, before |-> b, after |-> b,
                   done |-> FALSE]

\* the getter of field f of a struct, applied to a buffer
Get(kind, f, buf) ==
    LET d == Fields(kind)[f] IN bit_range(buf, d.msb, d.lsb, d.w)

\* the setter of field f of a struct: set_bit_range(msb, lsb, value)
SetField ==
    /\ run = "bits"
    /\ ~fld.done
    /\ LET d == Fields(fld.kind)[fld.f]
       IN fld' = [fld EXCEPT !.after = set_bit_range(fld.before, d.msb, d.lsb, fld.v),
                             !.done = TRUE]
    /\ UNCHANGED <<run, clock, tcp_vars, udp_vars, codec_vars, cfg_vars, packet, lib_vars>>

-----------------------------------------------------------------------------
(* The heartbeat builder, driven on its own *)

NoPacket == [built |-> FALSE, header |-> <<>>, frame |-> <<>>]

\* the configuration the transports and the codec runs are constructed with:
\* BusNumber::default() is 13
InitConfig ==
    /\ mac_addr = ServerMac
    /\ bus_number = default.val
    /\ data_rate = ServerRate

InitHeartbeat ==
    /\ mac_addr \in Macs
    /\ bus_number \in BusNumbers
    /\ data_rate \in Rates

\* Packet::new_heartbeat(&mac_addr, &bus_number, &data_rate)
BuildHeartbeat ==
    /\ run = "heartbeat"
    /\ ~packet.built
    /\ packet' = [built |-> TRUE] @@ new_heartbeat(mac_addr, bus_number, data_rate)
    /\ UNCHANGED <<run, clock, tcp_vars, udp_vars, codec_vars, cfg_vars, lib_vars, bits_vars>>

-----------------------------------------------------------------------------
(* Specification *)

Init ==
    /\ run \in {"tcp", "udp", "codec", "wire", "heartbeat", "busnumber", "bits"}
    /\ InitTcp
    /\ InitUdp
    /\ CASE run = "codec" -> InitCodec
         [] run = "wire"  -> InitWire
         [] OTHER         -> InitCodecIdle
    /\ IF run = "heartbeat" THEN InitHeartbeat ELSE InitConfig
    /\ packet = NoPacket
    /\ IF run = "busnumber" THEN InitBus ELSE InitBusIdle
    /\ IF run = "bits" THEN InitBits ELSE InitBitsIdle

Next ==
    \/ \E listen_ok \in BOOLEAN : TcpPoll(listen_ok)
    \/ TcpSendHeartbeat
    \/ \E f \in SentFrames : TcpSendFrame(f)
    \/ TcpRecvFrame
    \/ PeerSyn
    \/ PeerAck
    \/ \E n \in PeerChunks : PeerData(n)
    \/ PeerFin
    \/ PeerFinAck
    \/ PeerRst
    \/ NetDrain
    \/ Tick
    \/ \E bind_ok \in BOOLEAN : UdpPoll(bind_ok)
    \/ UdpSendHeartbeat
    \/ \E f \in SentFrames : UdpSendFrame(f)
    \/ \E b \in SetBusNumbers : UdpSetBusNumber(b)
    \/ \E truncates \in BOOLEAN : UdpRecvFrame(truncates)
    \/ \E n \in UdpArrivals : UdpPeerSend(n)
    \/ UdpNetTake
    \/ UdpTick
    \/ Encode
    \/ ReadBack
    \/ Construct
    \/ BuildHeartbeat
    \/ TryFrom
    \/ Default
    \/ SetField

Spec == Init /\ [][Next]_vars

-----------------------------------------------------------------------------
(* The transports under a clock that never stops.  poll compares only       *)
(* now - last_heartbeat with the interval, so once the clock is at its      *)
(* bound a tick moves last_heartbeat back instead, until the difference is  *)
(* one more than the interval; beyond that every difference tests alike.    *)

\* last_heartbeat as seen from a now that has moved on by one
Rebased(now, last) ==
    IF now - last > HEARTBEAT_INTERVAL THEN last ELSE last - 1

TickOn ==
    /\ TcpOnly
    /\ IF clock < MaxNow
       THEN clock' = clock + 1 /\ UNCHANGED last_heartbeat
       ELSE clock' = clock /\ last_heartbeat' = Rebased(clock, last_heartbeat)
    /\ ev' = NoEv
    /\ UNCHANGED <<sock, wire, tx_start, rx_start>>

UdpTickOn ==
    /\ UdpOnly
    /\ IF clock < UdpMaxNow
       THEN clock' = clock + 1 /\ UNCHANGED udp_last_heartbeat
       ELSE clock' = clock /\ udp_last_heartbeat' = Rebased(clock, udp_last_heartbeat)
    /\ uev' = NoUev
    /\ UNCHANGED <<usock, halted>>

\* the peer has consumed the oldest write of the stream: it leaves the record
WireForget ==
    /\ TcpOnly
    /\ wire # <<>>
    /\ wire' = Tail(wire)
    /\ ev' = NoEv
    /\ UNCHANGED <<clock, sock, last_heartbeat, tx_start, rx_start>>

InitLive == Init /\ run \in {"tcp", "udp"}

NextLive ==
    \/ \E listen_ok \in BOOLEAN : TcpPoll(listen_ok)
    \/ TcpSendHeartbeat
    \/ PeerSyn
    \/ PeerAck
    \/ PeerFin
    \/ PeerFinAck
    \/ PeerRst
    \/ NetDrain
    \/ WireForget
    \/ TickOn
    \/ \E bind_ok \in BOOLEAN : UdpPoll(bind_ok)
    \/ UdpSendHeartbeat
    \/ \E f \in SentFrames : UdpSendFrame(f)
    \/ UdpNetTake
    \/ UdpTickOn

\* time passes whatever the transports do
SpecLive == InitLive /\ [][NextLive]_vars /\ WF_vars(TickOn) /\ WF_vars(UdpTickOn)

-----------------------------------------------------------------------------
(* Properties.  A step is recognised by what it leaves in ev (TCP) or uev    *)
(* (UDP): every transport call records its name there, and every step of    *)
(* the peer, the network and the clock resets it.                            *)

\* C1: TCP send_frame sequence.  On an established connection a send_frame
\* made with tx_start = false writes the 30-byte prefix and then the 14 bytes
\* of the Frame and sets tx_start; a send_frame made with tx_start = true
\* writes exactly the 14 bytes of the Frame; and the poll that closes from
\* CloseWait leaves tx_start = false, so that the next connection's first
\* send_frame writes the prefix again.
C1_SendFrameSequence ==
    [][/\ (ev'.op = "send_frame" /\ sock.state = "Established") =>
            IF ~tx_start
            THEN ev'.wrote = <<Seg("prefix", PREFIX_LEN), Seg("frame", FRAME_LEN)>> /\ tx_start'
            ELSE ev'.wrote = <<Seg("frame", FRAME_LEN)>>
       /\ (ev'.op = "poll" /\ sock.state = "CloseWait") => ~tx_start'
      ]_vars

\* C2: a new connection starts a fresh alignment cycle.  Whenever the socket
\* becomes Established, tx_start and rx_start are both false, whatever ended
\* the connection before and whatever calls were made in between.
C2_FreshAlignmentCycle ==
    [][(sock.state # "Established" /\ sock'.state = "Established")
          => (~tx_start' /\ ~rx_start')]_vars

\* the writes of a connection are one 30-byte block, then whole 14-byte units
WellFramed(w) ==
    \/ w = <<>>
    \/ /\ w[1] = Seg("prefix", PREFIX_LEN)
       /\ \A i \in 2..Len(w) : w[i].kind \in {"hb", "frame"} /\ w[i].n = FRAME_LEN

\* C3: on any TCP connection, what poll's heartbeat, send_heartbeat and
\* send_frame have written is one 30-byte block followed by zero or more whole
\* 14-byte Frames.
C3_StreamAligned == WellFramed(wire)

\* C4: TCP recv_frame prefix handling.  A recv_frame made while the socket is
\* readable and rx_start = false discards exactly 30 bytes, sets rx_start and
\* returns "no frame" if nothing beyond the prefix was queued; one made with
\* rx_start = true discards nothing; one made while the socket is not readable
\* returns "no frame" and leaves rx_start as it was.
C4_RecvPrefix ==
    [][ev'.op = "recv_frame" =>
          IF sock.rx_len > 0
          THEN /\ rx_start'
               /\ ~rx_start => ev'.skipped = PREFIX_LEN
               /\ rx_start => ev'.skipped = 0
               /\ (~rx_start /\ sock.rx_len <= PREFIX_LEN) => ev'.res = "none"
          ELSE ev'.res = "none" /\ rx_start' = rx_start
      ]_vars

\* C5: round trip.  For every CAN frame with dlc <= 8, the wire Frame that
\* from_frame builds returns, through id, is_extended, is_remote_frame, dlc and
\* data, the frame's identifier, flags, dlc and payload bytes.
C5_RoundTrip ==
    (pc = "read" /\ can.dlc <= 8) =>
        back = [id   |-> Returned([ext |-> can.ext, raw |-> can.id]),
                ext  |-> Returned(can.ext),
                rtr  |-> Returned(can.rtr),
                dlc  |-> Returned(can.dlc),
                data |-> Returned(can.data)]

\* C6: UDP heartbeat cadence.  A poll(now) with now - last_heartbeat at most
\* one interval sends nothing and leaves last_heartbeat; a poll(now) with
\* now - last_heartbeat above the interval whose send does not fail sends
\* exactly one heartbeat and sets last_heartbeat = now, however long ago the
\* last one was; and a poll that follows a sending poll with the same now
\* sends nothing.
C6_UdpHeartbeatCadence ==
    [][uev'.op = "poll" =>
          /\ (clock - udp_last_heartbeat <= HEARTBEAT_INTERVAL) =>
                /\ uev'.sent = <<>>
                /\ uev'.hb = "none"
                /\ usock'.tx = usock.tx
                /\ udp_last_heartbeat' = udp_last_heartbeat
          /\ (clock - udp_last_heartbeat > HEARTBEAT_INTERVAL /\ uev'.hb # "err") =>
                /\ uev'.sent = <<Dgram("hb")>>
                /\ usock'.tx = Append(usock.tx, Dgram("hb"))
                /\ udp_last_heartbeat' = clock
          /\ (uev.op = "poll" /\ uev.sent # <<>>) => uev'.sent = <<>>
      ]_vars

\* C6: a poll has just sent the heartbeat that was three or more seconds late
C6_Witness ==
    /\ uev.op = "poll"
    /\ uev.sent = <<Dgram("hb")>>
    /\ clock >= 3
    /\ udp_last_heartbeat = clock

\* C7: heartbeat timestamp rule.  poll changes last_heartbeat only when the
\* heartbeat send returned Ok; when the send fails last_heartbeat is as it
\* was, and (UDP, where a send can fail) every poll made with the interval
\* exceeded attempts the send.  On TCP poll writes only once can_send holds,
\* and then send_slice does not fail.
C7_StampOnlyOnSuccess ==
    [][/\ uev'.op = "poll" =>
            /\ udp_last_heartbeat' # udp_last_heartbeat =>
                  (uev'.hb = "ok" /\ udp_last_heartbeat' = clock)
            /\ uev'.hb = "err" => udp_last_heartbeat' = udp_last_heartbeat
            /\ (clock - udp_last_heartbeat > HEARTBEAT_INTERVAL) => uev'.hb \in {"ok", "err"}
       /\ ev'.op = "poll" =>
            /\ last_heartbeat' # last_heartbeat =>
                  (ev'.hb = "ok" /\ last_heartbeat' = clock)
            /\ ev'.hb = "err" => last_heartbeat' = last_heartbeat
      ]_vars

\* C7: a poll's heartbeat send has just failed, and the heartbeat is still due
C7_Witness ==
    /\ uev.op = "poll"
    /\ uev.hb = "err"
    /\ usock.bound
    /\ clock - udp_last_heartbeat > HEARTBEAT_INTERVAL

C9_CloseWaitPoll ==
    [][(ev'.op = "poll" /\ sock.state = "CloseWait") =>
          /\ sock' = [sock EXCEPT !.state = "LastAck"]
          /\ ev'.closed
          /\ ~tx_start'
          /\ ~rx_start'
          /\ ev'.listen = "none"
          /\ ev'.hb = "none"
          /\ ev'.wrote = <<>>
          /\ wire' = wire
          /\ last_heartbeat' = last_heartbeat
      ]_vars

\* C9: a poll has just closed from CloseWait while a heartbeat was due and the
\* socket had room for it
C9_Witness ==
    /\ ev.op = "poll"
    /\ ev.closed
    /\ sock.state = "LastAck"
    /\ sock.tx_len + FRAME_LEN <= TxCap
    /\ clock - last_heartbeat > HEARTBEAT_INTERVAL
    /\ ~tx_start
    /\ ~rx_start

\* C10: socket (re)opening by poll.  A poll attempts the listen (TCP) or the
\* bind (UDP) exactly when the socket is not open; a failed attempt changes no
\* state of the transport or of the socket, so the next poll finds the socket
\* not open and attempts again; a successful one leaves the socket listening
\* (bound).
C10_PollOpensSocket ==
    [][/\ ev'.op = "poll" =>
            /\ (ev'.listen # "none") <=> (sock.state \in {"Closed", "TimeWait"})
            /\ ev'.listen = "err" =>
                  UNCHANGED <<sock, wire, last_heartbeat, tx_start, rx_start>>
            /\ ev'.listen = "ok" => sock'.state = "Listen"
       /\ uev'.op = "poll" =>
            /\ (uev'.bind # "none") <=> ~usock.bound
            /\ uev'.bind = "err" => UNCHANGED <<usock, udp_last_heartbeat>>
            /\ uev'.bind = "ok" => usock'.bound
      ]_vars

\* C10: after a connection has ended, a poll has just put the socket back to listening
C10_Witness ==
    /\ ev.op = "poll"
    /\ ev.listen = "ok"
    /\ sock.state = "Listen"
    /\ tx_start

\* C11: codec rejection.  Frame::from_frame of a CAN frame with dlc > 8
\* returns Err and no wire Frame; Frame::new with more than 8 payload bytes and
\* Frame::new_remote with dlc > 8 return None.
C11_CodecRejects ==
    /\ (pc # "input" /\ can.dlc > 8) => enc = [ok |-> FALSE, frame |-> <<>>]
    /\ (made.call = "new" /\ Len(can.data) > 8) => made.res = [ok |-> FALSE, frame |-> <<>>]
    /\ (made.call = "new_remote" /\ can.dlc > 8) => made.res = [ok |-> FALSE, frame |-> <<>>]

\* C11: a data frame of 9 bytes has been through from_frame and Frame::new
C11_Witness ==
    /\ pc = "encoded"
    /\ made.call = "new"
    /\ Len(can.data) = 9
    /\ ~enc.ok
    /\ ~made.res.ok

\* C12: a transport send_frame given a CAN frame with dlc > 8 returns an
\* error to the caller, writes nothing to the socket (on TCP not the prefix
\* either) and leaves tx_start and last_heartbeat as they were.
C12_OverLengthReported ==
    [][/\ (ev'.op = "send_frame" /\ ev'.dlc > 8) =>
            /\ ev'.res = "err"
            /\ ev'.wrote = <<>>
            /\ UNCHANGED <<sock, wire, tx_start, last_heartbeat>>
       /\ (uev'.op = "send_frame" /\ uev'.dlc > 8) =>
            /\ uev'.res = "err"
            /\ uev'.sent = <<>>
            /\ UNCHANGED <<usock, udp_last_heartbeat, halted>>
      ]_vars

\* C13: malformed receive.  A recv_frame that reads from a readable socket
\* (UDP: a datagram is queued; TCP: can_recv) returns a Frame exactly when the
\* read delivered one complete unit (UDP: the datagram is 30 bytes; TCP: 14
\* bytes were read), and "no frame" otherwise; it never returns an error.
C13_MalformedReceive ==
    [][/\ (uev'.op = "recv_frame" /\ usock.rx # <<>>) =>
            /\ uev'.res \in {"none", "frame"}
            /\ (uev'.res = "frame") <=> (uev'.dgram = PacketLen)
       /\ (ev'.op = "recv_frame" /\ sock.rx_len > 0) =>
            /\ ev'.res \in {"none", "frame"}
            /\ (ev'.res = "frame") <=> (ev'.read = FRAME_LEN)
      ]_vars

\* C14: a UDP recv_frame made while the receive queue is empty returns
\* "no frame", not an error, and changes no state of the transport.
C14_UdpEmptyQueue ==
    [][(uev'.op = "recv_frame" /\ usock.rx = <<>>) =>
            /\ uev'.res = "none"
            /\ UNCHANGED <<usock, udp_last_heartbeat, halted>>
      ]_vars

\* C15: heartbeat content.  For every MAC, bus number in 0..15 and data rate,
\* the Packet that new_heartbeat builds has can_identifier 0, dlc 8, flags
\* equal to the Heartbeat bit alone, the data rate (big-endian, 2 bytes)
\* followed by the 6 MAC bytes as its payload (the last 8 bytes of the Frame),
\* the protocol version, the given bus number and client identifier 0 in its
\* header; MAC 1..6, bus 7, rate 500 gives payload 01 F4 01 02 03 04 05 06.
C15_HeartbeatContent ==
    packet.built =>
        /\ frame_id(packet.frame) = [k \in 0..3 |-> 0]
        /\ frame_dlc(packet.frame) = [k \in 0..0 |-> 8]
        /\ frame_flags(packet.frame) = [k \in 0..0 |-> 128]
        /\ Len(packet.frame) = 14
        /\ SubSeq(packet.frame, 7, 14) =
               <<data_rate \div 256, data_rate % 256>> \o mac_addr
        /\ Len(packet.header) = 16
        /\ version(packet.header) = [k \in 0..7 |-> <<86, 151, 70, 151, 38, 71, 5, 0>>[k + 1]]
        /\ header_bus_number(packet.header) = [k \in 0..0 |-> bus_number]
        /\ client_identifier(packet.header) = [k \in 0..7 |-> 0]
        /\ (mac_addr = <<1, 2, 3, 4, 5, 6>> /\ data_rate = 500) =>
               SubSeq(packet.frame, 7, 14) = <<1, 244, 1, 2, 3, 4, 5, 6>>

\* C15: the heartbeat of MAC 1..6, bus 7, rate 500 has been built
C15_Witness ==
    /\ packet.built
    /\ mac_addr = <<1, 2, 3, 4, 5, 6>>
    /\ bus_number = 7
    /\ data_rate = 500
    /\ as_bytes(packet) = <<0, 84, 114, 105, 116, 105, 117, 103, 0, 0, 0, 0, 0, 0, 0, 0,
                             0, 0, 0, 0, 128, 8, 1, 244, 1, 2, 3, 4, 5, 6>>

\* C16: every datagram the UDP transport sends, by poll, send_heartbeat or
\* send_frame and whatever set_bus_number calls came before, is exactly 30
\* bytes, and its header carries the protocol version, the bus number
\* configured at that moment (a value in 0..15) and client identifier 0.
C16_UdpDatagramHeader ==
    (uev.sent # <<>>) =>
        /\ Len(uev.bytes) = 30
        /\ version(SubSeq(uev.bytes, 1, 16)) =
               [k \in 0..7 |-> <<86, 151, 70, 151, 38, 71, 5, 0>>[k + 1]]
        /\ header_bus_number(SubSeq(uev.bytes, 1, 16)) = [k \in 0..0 |-> bus_number]
        /\ bus_number \in 0..15
        /\ client_identifier(SubSeq(uev.bytes, 1, 16)) = [k \in 0..7 |-> 0]
        /\ uev.bytes[1] = 0
        /\ uev.bytes[9] = 0

\* C16: a frame packet has been sent after set_bus_number(15)
C16_Witness ==
    /\ uev.op = "send_frame"
    /\ uev.sent # <<>>
    /\ bus_number = 15
    /\ SubSeq(uev.bytes, 1, 8) = <<0, 84, 114, 105, 116, 105, 117, 111>>

\* C17: payload packing.  For every CAN frame with dlc n in 0..8, the wire
\* Frame from_frame builds carries payload byte 0 in the most significant byte
\* of the 64-bit data field (the Frame's byte 6), payload byte i in the i-th
\* byte after it, and zero in the remaining 8 - n bytes.
C17_PayloadPacking ==
    (pc # "input" /\ can.dlc <= 8) =>
        /\ enc.ok
        /\ SubSeq(enc.frame, 7, 14) =
               [i \in 1..8 |-> IF i <= Len(can.data) THEN can.data[i] ELSE 0]

\* C18: payload exposure.  For every 14-byte wire Frame with dlc n <= 8,
\* data() returns exactly n bytes: the n most significant bytes of the data
\* field (the Frame's bytes 6 .. 6 + n - 1), in order.
C18_PayloadExposure ==
    (pc = "read" /\ enc.frame[6] <= 8) =>
        back.data = [panic |-> FALSE, val |-> SubSeq(enc.frame, 7, 6 + enc.frame[6])]

\* C19: flags with unrecognised bits.  For every flags byte, is_extended and
\* is_remote_frame return the Extended bit (1) and the Remote bit (2) of it
\* and do not fail, whatever the other bits are.
C19_UnknownFlagsIgnored ==
    (pc = "read") =>
        /\ back.ext = [panic |-> FALSE, val |-> enc.frame[5] % 2 = 1]
        /\ back.rtr = [panic |-> FALSE, val |-> (enc.frame[5] \div 2) % 2 = 1]

\* C20: identifier decoding is total.  For every wire Frame whose flags are
\* made of the four known bits, whatever its 32-bit can_identifier, id()
\* returns: an extended identifier when the Extended bit is set, a standard
\* one when it is clear.
C20_IdTotal ==
    (pc = "read" /\ enc.frame[5] \in {0, 1, 2, 3, 64, 128}) =>
        /\ ~back.id.panic
        /\ back.id.val.ext = (enc.frame[5] % 2 = 1)

\* C21: dlc never exceeds 8.  Every wire Frame built by Frame::new,
\* Frame::new_remote, Frame::from_frame or the heartbeat builder, and every
\* Frame recv_frame hands to the caller, has a dlc byte of at most 8.
C21_DlcBound ==
    /\ enc.ok => ToNat(frame_dlc(enc.frame)) <= 8
    /\ made.res.ok => ToNat(frame_dlc(made.res.frame)) <= 8
    /\ packet.built => ToNat(frame_dlc(packet.frame)) <= 8

C23_ConfigOnlyBySetters ==
    [][/\ (\/ ev'.op \in {"poll", "send_heartbeat", "send_frame", "recv_frame"}
           \/ uev'.op \in {"poll", "send_heartbeat", "send_frame", "recv_frame"}) =>
              /\ mac_addr' = mac_addr
              /\ bus_number' = bus_number
              /\ data_rate' = data_rate
       /\ (uev'.op = "set_bus_number") =>
              /\ ServerBusNumber' = uev'.arg
              /\ mac_addr' = mac_addr
              /\ data_rate' = data_rate
       /\ (bus_number' # bus_number) => uev'.op = "set_bus_number"
       /\ (uev'.sent # <<>>) =>
              /\ uev'.bytes[8] % 16 = bus_number
              /\ bus_number' = bus_number
      ]_vars

\* C23: a timed heartbeat has gone out after set_bus_number(0) replaced the
\* bus number 13 of construction
C23_Witness ==
    /\ uev.op = "poll"
    /\ uev.hb = "ok"
    /\ bus_number = 0
    /\ uev.bytes[8] = 96

\* C24: BusNumber::try_from(n) returns Ok with a BusNumber of value n for
\* every n in 0..15 and Err for every n in 16..255; BusNumber::default() has
\* value 13; no BusNumber either constructor returns, and no bus number a
\* transport is configured with, has a value above 15.
C24_BusNumberRange ==
    /\ (bnum.call = "try_from" /\ bnum.n \in 0..15) =>
           bnum.res = [ok |-> TRUE, val |-> bnum.n]
    /\ (bnum.call = "try_from" /\ bnum.n \in 16..255) => ~bnum.res.ok
    /\ (bnum.call = "default") => bnum.res = [ok |-> TRUE, val |-> 13]
    /\ bnum.res.ok => bnum.res.val \in 0..15
    /\ bus_number \in 0..15

\* C24: try_from(16) has returned Err
C24_Witness ==
    /\ bnum.call = "try_from"
    /\ bnum.n = 16
    /\ ~bnum.res.ok

\* C25: fixed sizes.  Whatever the field values, an encoded Header is 16
\* bytes, an encoded Frame 14 bytes, and an encoded Packet 30 bytes: the
\* Header's 16 followed at once by the Frame's 14.
C25_FixedSizes ==
    /\ packet.built =>
           /\ Len(packet.header) = 16
           /\ Len(packet.frame) = 14
           /\ Len(as_bytes(packet)) = 30
           /\ SubSeq(as_bytes(packet), 1, 16) = packet.header
           /\ SubSeq(as_bytes(packet), 17, 30) = packet.frame
    /\ enc.ok => Len(enc.frame) = 14
    /\ made.res.ok => Len(made.res.frame) = 14
    /\ (uev.sent # <<>>) => Len(uev.bytes) = 30

\* C25: a Packet with every payload byte and the bus number non-zero has
\* been built
C25_Witness ==
    /\ packet.built
    /\ mac_addr = <<255, 254, 253, 252, 251, 250>>
    /\ data_rate = 65535
    /\ bus_number = 15
    /\ Len(as_bytes(packet)) = 30

\* C26: codec field independence.  In Header (16 bytes), Frame (14 bytes)
\* and Filter (24 bytes), every field's bit range lies inside the buffer and
\* no two fields' ranges share a bit; after set_X(v) the getter X() returns v
\* cut to the field's width (bit k of the result is bit k of v below the
\* width and 0 from the width up), the value's lowest bit sits at the range's
\* highest bit index (MSB-first), and every other getter of the buffer
\* returns what it returned before.
C26_FieldIndependence ==
    fld.done =>
        LET fs == Fields(fld.kind)
            d == fs[fld.f]
            width == d.msb - d.lsb + 1
            got == Get(fld.kind, fld.f, fld.after)
        IN /\ Len(fld.after) = StructLen(fld.kind)
           /\ StructLen(fld.kind) =
                  (CASE fld.kind = "Header" -> 16 [] fld.kind = "Frame" -> 14
                     [] fld.kind = "Filter" -> 24)
           /\ \A i \in 1..Len(fs) :
                  /\ 0 <= fs[i].lsb
                  /\ fs[i].lsb <= fs[i].msb
                  /\ fs[i].msb < 8 * StructLen(fld.kind)
                  /\ fs[i].msb - fs[i].lsb + 1 <= 8 * fs[i].w
           /\ \A i, j \in 1..Len(fs) :
                  (i # j) => (fs[i].msb < fs[j].lsb \/ fs[j].msb < fs[i].lsb)
           /\ \A k \in 0..(8 * d.w - 1) :
                  (got[k \div 8] \div (2 ^ (k % 8))) % 2 =
                      IF k < width THEN (fld.v[k \div 8] \div (2 ^ (k % 8))) % 2 ELSE 0
           /\ \A k \in 0..(width - 1) :
                  (fld.after[((d.msb - k) \div 8) + 1] \div (2 ^ (7 - ((d.msb - k) % 8)))) % 2
                      = (fld.v[k \div 8] \div (2 ^ (k % 8))) % 2
           /\ \A j \in 1..Len(fs) :
                  (j # fld.f) => Get(fld.kind, j, fld.after) = Get(fld.kind, j, fld.before)

\* C26: set_bus_number(0xFF) on an all-zero Header has set the 4 bits of the
\* field and nothing else
C26_Witness ==
    /\ fld.done
    /\ fld.kind = "Header"
    /\ Fields("Header")[fld.f].name = "bus_number"
    /\ fld.v = [k \in 0..0 |-> 255]
    /\ fld.after = <<0, 0, 0, 0, 0, 0, 0, 15, 0, 0, 0, 0, 0, 0, 0, 0>>

\* C27, as stated: on either transport, if poll is called infinitely often
\* while time passes, and from some point on no heartbeat write poll attempts
\* is refused or cut short, then poll sends heartbeats infinitely often.
C27_AsStated ==
    /\ ([]<>(uev.op = "poll") /\ <>[](uev.hb # "err"))
           => []<>(uev.op = "poll" /\ uev.hb = "ok")
    /\ ([]<>(ev.op = "poll")
           /\ <>[]((ev.op = "poll" /\ ev.hb # "none") => ev.wrote = <<[kind |-> "hb", n |-> 14]>>))
           => []<>(ev.op = "poll" /\ ev.wrote = <<[kind |-> "hb", n |-> 14]>>)

\* C27: heartbeat liveness.  On UDP as stated.  On TCP with one more
\* condition: from some point on the connection can send (it is Established
\* or CloseWait with room in its transmit buffer); without a connection poll
\* attempts no heartbeat at all.  Earlier failed binds, refused or partial
\* writes do not matter.
C27_HeartbeatLiveness ==
    /\ ([]<>(uev.op = "poll") /\ <>[](uev.hb # "err"))
           => []<>(uev.op = "poll" /\ uev.hb = "ok")
    /\ ([]<>(ev.op = "poll")
           /\ <>[]((ev.op = "poll" /\ ev.hb # "none") => ev.wrote = <<[kind |-> "hb", n |-> 14]>>)
           /\ <>[](sock.state \in {"Established", "CloseWait"} /\ sock.tx_len < TxCap))
           => []<>(ev.op = "poll" /\ ev.wrote = <<[kind |-> "hb", n |-> 14]>>)

\* C27: with the clock at its bound, poll has sent the timed heartbeat on UDP
C27_Witness ==
    /\ uev.op = "poll"
    /\ uev.hb = "ok"
    /\ clock = UdpMaxNow
    /\ udp_last_heartbeat = clock

\* C28: TCP send atomicity.  A send_frame (of a frame with dlc <= 8) or a
\* send_heartbeat that returns Ok has put every byte of what it wrote into
\* the transmit buffer: all 14 bytes of the Frame, and before it, on the first
\* send of a connection, all 30 bytes of the prefix; and a send_frame that
\* sets tx_start has enqueued all 30 prefix bytes.
C28_SendAtomic ==
    [][/\ (ev'.op = "send_frame" /\ ev'.dlc <= 8 /\ ev'.res = "ok") =>
            /\ ev'.wrote # <<>>
            /\ ev'.wrote[Len(ev'.wrote)] = [kind |-> "frame", n |-> 14]
            /\ sock'.tx_len - sock.tx_len = (IF tx_start THEN 14 ELSE 44)
       /\ (ev'.op = "send_frame" /\ ~tx_start /\ tx_start') =>
            /\ ev'.wrote # <<>>
            /\ ev'.wrote[1] = [kind |-> "prefix", n |-> 30]
       /\ (ev'.op = "send_heartbeat" /\ ev'.res = "ok") =>
            ev'.wrote = <<[kind |-> "hb", n |-> 14]>>
      ]_vars

\* C29: TCP receive alignment under chunking.  However the peer's stream
\* arrives, every Frame recv_frame returns is 14 bytes that start at an offset
\* 30 + 14 * k of the stream; the prefix is skipped only when all 30 bytes of
\* it are there; and a call consumes exactly the prefix it skipped plus the
\* Frame it returned, so a call that finds too few bytes consumes none.
C29_RecvAligned ==
    [][(ev'.op = "recv_frame") =>
            /\ (ev'.res = "frame") =>
                   /\ ev'.read = 14
                   /\ ev'.off >= 30
                   /\ (ev'.off - 30) % 14 = 0
            /\ (rx_start' /\ ~rx_start) => (sock.rx_len >= 30 /\ ev'.skipped = 30)
            /\ sock'.rx_off - sock.rx_off =
                   (IF rx_start' /\ ~rx_start THEN 30 ELSE 0)
                     + (IF ev'.res = "frame" THEN 14 ELSE 0)
      ]_vars

\* C30: the two ways of building a wire Frame agree.  For every identifier
\* and every payload of at most 8 bytes, Frame::new(id, payload) and
\* Frame::from_frame of the CAN data frame with that identifier and payload
\* both succeed and give the same 14 bytes.
C30_ConstructorsAgree ==
    (pc # "input" /\ made.call = "new" /\ Len(can.data) <= 8) =>
        /\ enc.ok
        /\ made.res.ok
        /\ enc.frame = made.res.frame

====
